---- MODULE Spec2Model ----
(***************************************************************************)
(* Model of two parts of lime-elements:                                    *)
(*   - the text-editor MenuCommandFactory (getCommand / buildKeymap) and   *)
(*     the command creators it dispatches to;                              *)
(*   - the focus / blur / stopEdit handling of the limel-chip-set          *)
(*     component.                                                          *)
(* The two parts share no state; each has its own specification (Spec for  *)
(* the factory, ChipSpec for the chip set).                                *)
(***************************************************************************)
EXTENDS Integers, Sequences, FiniteSets, TLC

(***************************************************************************)
(* Bounds.                                                                 *)
(***************************************************************************)
\* Longest url string passed to getCommand.
MaxUrlLen == 1
\* Longest text typed into the chip set's input field.
MaxTextLen == 1
\* Number of blur events of the chip set's input field that are followed.
MaxBlurs == 2
\* Number of changes of the chip set's value property that are followed.
MaxValueChanges == 1

(***************************************************************************)
(* Values.                                                                 *)
(*  An optional argument, and the result of a lookup, is a tuple: <<>> is  *)
(*  JavaScript's undefined and <<v>> is the value v.  A url string is the  *)
(*  sequence of its characters, so <<>> inside the wrapper is the empty    *)
(*  string: <<>> is "no url", << <<>> >> is the url "".                    *)
(***************************************************************************)
undefined == <<>>

Chars == {"a"}

RECURSIVE StringsUpTo(_)
StringsUpTo(n) ==
    IF n = 0 THEN {<<>>}
    ELSE LET shorter == StringsUpTo(n - 1)
         IN  shorter \cup {Append(s, c) : s \in shorter, c \in Chars}

UrlStrings == StringsUpTo(MaxUrlLen)

\* The url? argument of getCommand: absent, or any string (the empty one too).
UrlArgs == {undefined} \cup {<<s>> : s \in UrlStrings}

\* JavaScript truthiness of an optional string: undefined and "" are falsy.
TruthyString(arg) == arg # undefined /\ Len(arg[1]) > 0

\* JavaScript truthiness of an optional number: undefined and 0 are falsy.
TruthyNumber(arg) == arg # undefined /\ arg[1] # 0

(***************************************************************************)
(* ./types (not among the sources): the enumeration of menu actions and    *)
(* the heading levels.                                                     *)
(***************************************************************************)
EditorMenuTypes ==
    [Strong       |-> "strong",
     Italic       |-> "em",
     HeaderLevel1 |-> "headerlevel1",
     HeaderLevel2 |-> "headerlevel2",
     HeaderLevel3 |-> "headerlevel3",
     Blockquote   |-> "blockquote",
     OrderedList  |-> "ordered_list",
     BulletList   |-> "bullet_list",
     Link         |-> "link"]

\* Object.values(EditorMenuTypes)
EditorMenuTypeValues == {EditorMenuTypes[k] : k \in DOMAIN EditorMenuTypes}

levelMapping == [one |-> 1, two |-> 2, three |-> 3]

(***************************************************************************)
(* The schema (capability table): the marks and the nodes it defines.      *)
(* schema.marks[name] is a MarkType when the name is present, undefined    *)
(* otherwise; likewise schema.nodes.  The names modelled are the ones some *)
(* lookup of the command creators can read.                                *)
(***************************************************************************)
MarkNames == {"strong", "em", "link"}
NodeNames == {"heading", "blockquote", "ordered_list", "bullet_list"}

Schemas == [marks : SUBSET MarkNames, nodes : SUBSET NodeNames]

FullSchema == [marks |-> MarkNames, nodes |-> NodeNames]

MarksLookup(schema, name) ==
    IF name \in schema.marks
    THEN <<[class |-> "MarkType", name |-> name]>>
    ELSE undefined

NodesLookup(schema, name) ==
    IF name \in schema.nodes
    THEN <<[class |-> "NodeType", name |-> name]>>
    ELSE undefined

(***************************************************************************)
(* Outcomes.  A call either returns a value or throws `new Error(message)`.*)
(* The message is the template literal's three pieces.  `site` is not part *)
(* of the thrown value: it records which check threw.                      *)
(***************************************************************************)
Error(pre, name, post) == [name |-> "Error", message |-> <<pre, name, post>>]

Throw(site, error) == [threw |-> TRUE, site |-> site, error |-> error]

Return(value) == [threw |-> FALSE, value |-> value]

\* The prosemirror commands: a command bound to a type handle and to attrs.
Command(fn, type, href, level) ==
    [fn |-> fn, type |-> type, href |-> href, level |-> level]

toggleMark(markType, href) == Command("toggleMark", markType, href, undefined)
setBlockType(type, level)  == Command("setBlockType", type, undefined, level)
wrapIn(type)               == Command("wrapIn", type, undefined, undefined)
wrapInList(type)           == Command("wrapInList", type, undefined, undefined)

(***************************************************************************)
(* The command creators.                                                   *)
(***************************************************************************)
\* Mutant of createToggleMarkCommand: the url is bound for every mark.
createToggleMarkCommandAnyMark(schema, markName, url) ==
    LET markType == MarksLookup(schema, markName)
    IN  IF markType = undefined
        THEN Throw("capability", Error("Mark \"", markName, "\" not found in schema"))
        ELSE IF TruthyString(url)
             THEN Return(toggleMark(markType[1], url))
             ELSE Return(toggleMark(markType[1], undefined))

createToggleMarkCommand(schema, markName, url) ==
    LET markType == MarksLookup(schema, markName)
    IN  IF markType = undefined
        THEN Throw("capability", Error("Mark \"", markName, "\" not found in schema"))
        ELSE IF markName = EditorMenuTypes.Link /\ TruthyString(url)
             THEN Return(toggleMark(markType[1], url))
             ELSE Return(toggleMark(markType[1], undefined))

\* Mutant of createSetNodeTypeCommand: the node type is compared with 'header'.
createSetNodeTypeCommandHeader(schema, nodeType, level) ==
    LET type == NodesLookup(schema, nodeType)
    IN  IF type = undefined
        THEN Throw("capability", Error("Node type \"", nodeType, "\" not found in schema"))
        ELSE IF nodeType = "header" /\ TruthyNumber(level)
             THEN Return(setBlockType(type[1], level))
             ELSE Return(setBlockType(type[1], undefined))

createSetNodeTypeCommand(schema, nodeType, level) ==
    LET type == NodesLookup(schema, nodeType)
    IN  IF type = undefined
        THEN Throw("capability", Error("Node type \"", nodeType, "\" not found in schema"))
        ELSE IF nodeType = "heading" /\ TruthyNumber(level)
             THEN Return(setBlockType(type[1], level))
             ELSE Return(setBlockType(type[1], undefined))

createWrapInCommand(schema, nodeType) ==
    LET type == NodesLookup(schema, nodeType)
    IN  IF type = undefined
        THEN Throw("capability", Error("Node type \"", nodeType, "\" not found in schema"))
        ELSE Return(wrapIn(type[1]))

\* Mutant of createListCommand: the list type is looked up among the marks.
createListCommandFromMarks(schema, listType) ==
    LET type == MarksLookup(schema, listType)
    IN  IF type = undefined
        THEN Throw("capability", Error("List type \"", listType, "\" not found in schema"))
        ELSE Return(wrapInList(type[1]))

createListCommand(schema, listType) ==
    LET type == NodesLookup(schema, listType)
    IN  IF type = undefined
        THEN Throw("capability", Error("List type \"", listType, "\" not found in schema"))
        ELSE Return(wrapInList(type[1]))

(***************************************************************************)
(* The dispatch table: key -> command function.  A command function is     *)
(* named by a tag; CallCommandFunction applies the tagged function to      *)
(* (schema, mark, url) the way getCommand calls it.                        *)
(***************************************************************************)
\* Mutant of commandMapping: the key of the bullet list entry is misspelt.
commandMappingMisspeltKey ==
    [strong       |-> "createToggleMarkCommand",
     em           |-> "createToggleMarkCommand",
     underline    |-> "createToggleMarkCommand",
     headerlevel1 |-> "headerlevel1",
     headerlevel2 |-> "headerlevel2",
     headerlevel3 |-> "headerlevel3",
     blockquote   |-> "createWrapInCommand",
     ordered_list |-> "createListCommand",
     bulletlist   |-> "createListCommand",
     link         |-> "createToggleMarkCommand"]

commandMapping ==
    [strong       |-> "createToggleMarkCommand",
     em           |-> "createToggleMarkCommand",
     underline    |-> "createToggleMarkCommand",
     headerlevel1 |-> "headerlevel1",
     headerlevel2 |-> "headerlevel2",
     headerlevel3 |-> "headerlevel3",
     blockquote   |-> "createWrapInCommand",
     ordered_list |-> "createListCommand",
     bullet_list  |-> "createListCommand",
     link         |-> "createToggleMarkCommand"]

CallCommandFunction(commandFunc, schema, mark, url) ==
    CASE commandFunc = "createToggleMarkCommand" ->
            createToggleMarkCommand(schema, mark, url)
      [] commandFunc = "headerlevel1" ->
            createSetNodeTypeCommand(schema, "heading", <<levelMapping.one>>)
      [] commandFunc = "headerlevel2" ->
            createSetNodeTypeCommand(schema, "heading", <<levelMapping.two>>)
      [] commandFunc = "headerlevel3" ->
            createSetNodeTypeCommand(schema, "heading", <<levelMapping.three>>)
      [] commandFunc = "createWrapInCommand" ->
            createWrapInCommand(schema, mark)
      [] commandFunc = "createListCommand" ->
            createListCommand(schema, mark)

\* table[mark]: the entry, or undefined.
MappingLookup(table, mark) ==
    IF mark \in DOMAIN table THEN <<table[mark]>> ELSE undefined

(***************************************************************************)
(* MenuCommandFactory.                                                     *)
(***************************************************************************)
\* Mutant of getCommand: the first error carries the message of a missing mark.
getCommandSameMessage(schema, table, mark, url) ==
    IF mark \notin EditorMenuTypeValues
    THEN Throw("unsupported", Error("Mark \"", mark, "\" not found in schema"))
    ELSE LET commandFunc == MappingLookup(table, mark)
         IN  IF commandFunc = undefined
             THEN Throw("unimplemented", Error("The Mark \"", mark, "\" is not supported"))
             ELSE CallCommandFunction(commandFunc[1], schema, mark, url)

\* Mutant of getCommand: the membership check of the enumeration is missing.
getCommandWithoutEnumCheck(schema, table, mark, url) ==
    LET commandFunc == MappingLookup(table, mark)
    IN  IF commandFunc = undefined
        THEN Throw("unimplemented", Error("The Mark \"", mark, "\" is not supported"))
        ELSE CallCommandFunction(commandFunc[1], schema, mark, url)

getCommand(schema, table, mark, url) ==
    IF mark \notin EditorMenuTypeValues
    THEN Throw("unsupported", Error("The Menu Type \"", mark, "\" is not supported"))
    ELSE LET commandFunc == MappingLookup(table, mark)
         IN  IF commandFunc = undefined
             THEN Throw("unimplemented", Error("The Mark \"", mark, "\" is not supported"))
             ELSE CallCommandFunction(commandFunc[1], schema, mark, url)

\* Mutant of KeymapEntries: Mod-Shift-2 is bound to the level 1 heading.
KeymapEntriesCopied ==
    <<[key |-> "Mod-B",       mark |-> EditorMenuTypes.Strong],
      [key |-> "Mod-I",       mark |-> EditorMenuTypes.Italic],
      [key |-> "Mod-Shift-1", mark |-> EditorMenuTypes.HeaderLevel1],
      [key |-> "Mod-Shift-2", mark |-> EditorMenuTypes.HeaderLevel1],
      [key |-> "Mod-Shift-3", mark |-> EditorMenuTypes.HeaderLevel3]>>

\* The object literal of buildKeymap, in source order.
KeymapEntries ==
    <<[key |-> "Mod-B",       mark |-> EditorMenuTypes.Strong],
      [key |-> "Mod-I",       mark |-> EditorMenuTypes.Italic],
      [key |-> "Mod-Shift-1", mark |-> EditorMenuTypes.HeaderLevel1],
      [key |-> "Mod-Shift-2", mark |-> EditorMenuTypes.HeaderLevel2],
      [key |-> "Mod-Shift-3", mark |-> EditorMenuTypes.HeaderLevel3]>>

\* Mutant of buildKeymap: a binding that cannot be resolved is left out.
buildKeymapOmitting(schema, table) ==
    LET n       == Len(KeymapEntries)
        outs    == [i \in 1..n |-> getCommand(schema, table, KeymapEntries[i].mark, undefined)]
        kept    == {i \in 1..n : ~outs[i].threw}
        keys    == {KeymapEntries[i].key : i \in kept}
        at(k)   == CHOOSE i \in kept : KeymapEntries[i].key = k
    IN  Return([k \in keys |-> outs[at(k)].value])

\* The property values are evaluated in order; the first throw ends the call.
buildKeymap(schema, table) ==
    LET n       == Len(KeymapEntries)
        outs    == [i \in 1..n |-> getCommand(schema, table, KeymapEntries[i].mark, undefined)]
        thrown  == {i \in 1..n : outs[i].threw}
        first   == CHOOSE i \in thrown : \A j \in thrown : i <= j
        keys    == {KeymapEntries[i].key : i \in 1..n}
        at(k)   == CHOOSE i \in 1..n : KeymapEntries[i].key = k
    IN  IF thrown # {}
        THEN outs[first]
        ELSE Return([k \in keys |-> outs[at(k)].value])

(***************************************************************************)
(* State.                                                                  *)
(***************************************************************************)
VARIABLES
    \* MenuCommandFactory
    schema,         \* this.schema of the factory: the caller's capability table
    dispatchTable,  \* the module-level commandMapping object
    call,           \* the last call made: [op, mark, url]
    result,         \* its outcome
    earlier,        \* an earlier getCommand call and its outcome, kept for comparison
    \* ChipSet (type 'input')
    emptyInputOnBlur,  \* @Prop
    valueVersion,      \* @Prop value: the number of times the consumer replaced it
    editMode,          \* @State
    textValue,         \* @State
    blurred,           \* @State
    inputFocused,      \* whether the <input> element has the DOM focus
    renderPending,     \* a state change has scheduled a re-render
    timers,            \* setTimeout(0) callbacks of handleInputBlur not yet run
    stopEditLog,       \* for each stopEdit emitted: editMode and focus at that moment
    lastInput,         \* the text of the last input event, undefined before the first
    emptiedSince       \* what has emptied the input since that input event

factoryVars == <<schema, dispatchTable, call, result, earlier>>

chipVars == <<emptyInputOnBlur, valueVersion, editMode, textValue, blurred,
              inputFocused, renderPending, timers, stopEditLog,
              lastInput, emptiedSince>>

vars == <<schema, dispatchTable, call, result, earlier,
          emptyInputOnBlur, valueVersion, editMode, textValue, blurred,
          inputFocused, renderPending, timers, stopEditLog,
          lastInput, emptiedSince>>

(***************************************************************************)
(* MenuCommandFactory: construction and calls.                             *)
(***************************************************************************)
\* The identifiers callers pass: the enumerated ones, a key of the dispatch
\* table that is not enumerated, and one that is neither.
Identifiers == EditorMenuTypeValues \cup {"underline", "strikethrough"}

NoCall == [op |-> "none"]

\* constructor(schema)
FactoryNew(s) ==
    /\ schema = s
    /\ dispatchTable = commandMapping
    /\ call = NoCall
    /\ result = NoCall
    /\ earlier = NoCall

\* Keeping a call for comparison: once, and only a getCommand call.
Remember(keep) ==
    earlier' = IF keep THEN [call |-> call, result |-> result] ELSE earlier

MayKeep == IF earlier = NoCall /\ call.op = "getCommand" THEN BOOLEAN ELSE {FALSE}

\* Mutant of CallGetCommand: resolving a mark removes it from the schema.
CallGetCommandConsuming ==
    \E mark \in Identifiers, url \in UrlArgs, keep \in MayKeep :
        /\ call' = [op |-> "getCommand", mark |-> mark, url |-> url]
        /\ result' = getCommand(schema, dispatchTable, mark, url)
        /\ Remember(keep)
        /\ schema' = [schema EXCEPT !.marks = @ \ {mark}]
        /\ UNCHANGED dispatchTable
        /\ UNCHANGED chipVars

\* A caller calls factory.getCommand(mark, url).
CallGetCommand ==
    \E mark \in Identifiers, url \in UrlArgs, keep \in MayKeep :
        /\ call' = [op |-> "getCommand", mark |-> mark, url |-> url]
        /\ result' = getCommand(schema, dispatchTable, mark, url)
        /\ Remember(keep)
        /\ UNCHANGED <<schema, dispatchTable>>
        /\ UNCHANGED chipVars

\* A caller calls factory.buildKeymap().
CallBuildKeymap ==
    \E keep \in MayKeep :
        /\ call' = [op |-> "buildKeymap"]
        /\ result' = buildKeymap(schema, dispatchTable)
        /\ Remember(keep)
        /\ UNCHANGED <<schema, dispatchTable>>
        /\ UNCHANGED chipVars

(***************************************************************************)
(* ChipSet.                                                                *)
(***************************************************************************)
InputTexts == StringsUpTo(MaxTextLen)

\* Field initialisers of the class.
ChipSetNew ==
    /\ emptyInputOnBlur = TRUE
    /\ valueVersion = 0
    /\ editMode = FALSE
    /\ textValue = <<>>
    /\ blurred = FALSE
    /\ inputFocused = FALSE
    /\ renderPending = FALSE
    /\ timers = 0
    /\ stopEditLog = <<>>
    /\ lastInput = undefined
    /\ emptiedSince = {}

\* Assigning a @State or @Prop a different value schedules a re-render.
Rerender(changed) == renderPending' = (renderPending \/ changed)

\* handleTextFieldFocus: editMode = true; startEdit.emit()
handleTextFieldFocus ==
    /\ editMode' = TRUE

\* The focus event of the <input> (the user tabs or clicks into it).
InputFocus ==
    /\ ~inputFocused
    /\ inputFocused' = TRUE
    /\ handleTextFieldFocus
    /\ Rerender(~editMode)
    /\ UNCHANGED <<emptyInputOnBlur, valueVersion, textValue, blurred, timers, stopEditLog>>
    /\ UNCHANGED <<lastInput, emptiedSince>>
    /\ UNCHANGED factoryVars

\* A click on the text field's <div> (onClick): it does not move the focus.
TextFieldClick ==
    /\ handleTextFieldFocus
    /\ Rerender(~editMode)
    /\ UNCHANGED <<emptyInputOnBlur, valueVersion, textValue, blurred, inputFocused,
                   timers, stopEditLog>>
    /\ UNCHANGED <<lastInput, emptiedSince>>
    /\ UNCHANGED factoryVars

\* setFocus(): editMode = true; input.focus(), whose focus event (when the
\* input did not have the focus) runs handleTextFieldFocus at once.
setFocus ==
    /\ editMode' = TRUE
    /\ inputFocused' = TRUE
    /\ Rerender(~editMode)
    /\ UNCHANGED <<emptyInputOnBlur, valueVersion, textValue, blurred, timers, stopEditLog>>
    /\ UNCHANGED <<lastInput, emptiedSince>>
    /\ UNCHANGED factoryVars

\* Mutant of handleInputBlur: the input is emptied on every blur.
handleInputBlurAlwaysEmptying ==
    /\ inputFocused
    /\ Len(stopEditLog) + timers < MaxBlurs
    /\ inputFocused' = FALSE
    /\ textValue' = <<>>
    /\ editMode' = FALSE
    /\ blurred' = TRUE
    /\ timers' = timers + 1
    /\ Rerender(textValue # <<>> \/ editMode \/ ~blurred)
    /\ UNCHANGED <<emptyInputOnBlur, valueVersion, stopEditLog>>
    /\ emptiedSince' = IF emptyInputOnBlur THEN emptiedSince \cup {"blur"} ELSE emptiedSince
    /\ UNCHANGED lastInput
    /\ UNCHANGED factoryVars

\* handleInputBlur, run by the blur event of the <input>.
handleInputBlur ==
    /\ inputFocused
    /\ Len(stopEditLog) + timers < MaxBlurs
    /\ inputFocused' = FALSE
    /\ textValue' = IF emptyInputOnBlur THEN <<>> ELSE textValue
    /\ editMode' = FALSE
    /\ blurred' = TRUE
    /\ timers' = timers + 1
    /\ Rerender((emptyInputOnBlur /\ textValue # <<>>) \/ editMode \/ ~blurred)
    /\ UNCHANGED <<emptyInputOnBlur, valueVersion, stopEditLog>>
    /\ emptiedSince' = IF emptyInputOnBlur THEN emptiedSince \cup {"blur"} ELSE emptiedSince
    /\ UNCHANGED lastInput
    /\ UNCHANGED factoryVars

\* The setTimeout(0) callback of handleInputBlur: stopEdit.emit()
StopEditTimeout ==
    /\ timers > 0
    /\ timers' = timers - 1
    /\ stopEditLog' = Append(stopEditLog, [editMode |-> editMode, focused |-> inputFocused])
    /\ UNCHANGED <<emptyInputOnBlur, valueVersion, editMode, textValue, blurred,
                   inputFocused, renderPending>>
    /\ UNCHANGED <<lastInput, emptiedSince>>
    /\ UNCHANGED factoryVars

\* handleTextInput: the user types into the focused <input>.
handleTextInput ==
    /\ inputFocused
    /\ \E text \in InputTexts :
        /\ textValue' = text
        /\ Rerender(text # textValue)
        /\ lastInput' = <<text>>
    /\ emptiedSince' = {}
    /\ UNCHANGED <<emptyInputOnBlur, valueVersion, editMode, blurred, inputFocused,
                   timers, stopEditLog>>
    /\ UNCHANGED factoryVars

\* emptyInput()
emptyInput ==
    /\ textValue' = <<>>
    /\ Rerender(textValue # <<>>)
    /\ UNCHANGED <<emptyInputOnBlur, valueVersion, editMode, blurred, inputFocused,
                   timers, stopEditLog>>
    /\ emptiedSince' = emptiedSince \cup {"emptyInput"}
    /\ UNCHANGED lastInput
    /\ UNCHANGED factoryVars

\* The consumer replaces the value property: @Watch('value') handleChangeChips.
handleChangeChips ==
    /\ valueVersion < MaxValueChanges
    /\ valueVersion' = valueVersion + 1
    /\ textValue' = <<>>
    /\ Rerender(TRUE)
    /\ UNCHANGED <<emptyInputOnBlur, editMode, blurred, inputFocused, timers, stopEditLog>>
    /\ emptiedSince' = emptiedSince \cup {"value"}
    /\ UNCHANGED lastInput
    /\ UNCHANGED factoryVars

\* The consumer sets the emptyInputOnBlur property.
SetEmptyInputOnBlur ==
    /\ emptyInputOnBlur' = ~emptyInputOnBlur
    /\ Rerender(TRUE)
    /\ UNCHANGED <<valueVersion, editMode, textValue, blurred, inputFocused, timers,
                   stopEditLog>>
    /\ UNCHANGED <<lastInput, emptiedSince>>
    /\ UNCHANGED factoryVars

\* componentDidUpdate, after the re-render: in edit mode the input is focused,
\* and its focus event runs handleTextFieldFocus (editMode is true already).
componentDidUpdate ==
    /\ renderPending
    /\ renderPending' = FALSE
    /\ inputFocused' = (inputFocused \/ editMode)
    /\ UNCHANGED <<emptyInputOnBlur, valueVersion, editMode, textValue, blurred,
                   timers, stopEditLog>>
    /\ UNCHANGED <<lastInput, emptiedSince>>
    /\ UNCHANGED factoryVars

(***************************************************************************)
(* Specifications.                                                         *)
(*   Spec:     a factory constructed on any schema, and the calls made on  *)
(*             it.                                                         *)
(*   ChipSpec: a chip set and the events it handles.                       *)
(***************************************************************************)
Init == (\E s \in Schemas : FactoryNew(s)) /\ ChipSetNew

Next == CallGetCommand \/ CallBuildKeymap

Spec == Init /\ [][Next]_vars

ChipInit == FactoryNew(FullSchema) /\ ChipSetNew

ChipNext ==
    \/ InputFocus
    \/ TextFieldClick
    \/ setFocus
    \/ handleInputBlur
    \/ StopEditTimeout
    \/ handleTextInput
    \/ emptyInput
    \/ handleChangeChips
    \/ SetEmptyInputOnBlur
    \/ componentDidUpdate

ChipSpec == ChipInit /\ [][ChipNext]_vars

(***************************************************************************)
(* Properties of getCommand.                                               *)
(***************************************************************************)
IsGetCommand == call.op = "getCommand"

Enumerated == IsGetCommand /\ call.mark \in EditorMenuTypeValues

\* C1: every enumerated identifier has an entry in the dispatch table, so
\* getCommand never throws the "unimplemented" error for one; and against a
\* schema with every mark and node it returns a command and throws nothing.
C1_EnumeratedResolve ==
    /\ EditorMenuTypeValues \subseteq DOMAIN dispatchTable
    /\ Enumerated =>
        /\ result.threw => result.site # "unimplemented"
        /\ schema = FullSchema =>
            /\ ~result.threw
            /\ result.value # undefined
            /\ result.value.type # undefined

C1_Witness ==
    /\ IsGetCommand
    /\ call.mark = EditorMenuTypes.BulletList
    /\ schema = FullSchema
    /\ ~result.threw

\* C2: an identifier outside the enumeration always gets the "unsupported"
\* error (`The Menu Type "<id>" is not supported`), whatever the schema holds
\* and whether or not the identifier is a key of the dispatch table.
C2_NotEnumeratedUnsupported ==
    (IsGetCommand /\ call.mark \notin EditorMenuTypeValues) =>
        /\ result.threw
        /\ result.site = "unsupported"
        /\ result.error = Error("The Menu Type \"", call.mark, "\" is not supported")

C2_Witness ==
    /\ IsGetCommand
    /\ call.mark = "underline"
    /\ call.mark \in DOMAIN dispatchTable
    /\ schema = FullSchema
    /\ result.threw

\* The primitive the claim names for each action: the mark named like the
\* action for the toggle actions, the node 'heading' for the heading actions,
\* the node named like the action for blockquote and the lists.
C3_Required(mark) ==
    CASE mark \in {"strong", "em", "underline", "link"} ->
            [table |-> "marks", name |-> mark]
      [] mark \in {"headerlevel1", "headerlevel2", "headerlevel3"} ->
            [table |-> "nodes", name |-> "heading"]
      [] OTHER ->
            [table |-> "nodes", name |-> mark]

C3_Present(p) ==
    IF p.table = "marks" THEN p.name \in schema.marks ELSE p.name \in schema.nodes

\* C3: for an enumerated identifier getCommand throws the "not found in
\* schema" error exactly when the primitive the action requires is absent
\* from the schema, whatever else the schema holds; otherwise it returns a
\* command bound to that primitive.
C3_CapabilityUnavailable ==
    Enumerated =>
        LET p == C3_Required(call.mark)
        IN  IF C3_Present(p)
            THEN ~result.threw /\ result.value.type.name = p.name
            ELSE /\ result.threw
                 /\ result.site = "capability"
                 /\ result.error.message[2] = p.name

C3_Witness ==
    /\ IsGetCommand
    /\ call.mark = EditorMenuTypes.Strong
    /\ schema.marks = MarkNames \ {"strong"}
    /\ schema.nodes = NodeNames
    /\ result.threw
    /\ result.site = "capability"

\* Two calls that both threw: the call kept earlier and the last call.
C4_TwoFaults ==
    /\ earlier # NoCall
    /\ earlier.result.threw
    /\ call # NoCall
    /\ result.threw

\* The fixed text of an error message, without the name put into it.
C4_Template(error) == <<error.message[1], error.message[3]>>

C5_Level(mark) ==
    CASE mark = "headerlevel1" -> 1
      [] mark = "headerlevel2" -> 2
      [] mark = "headerlevel3" -> 3

C5_HeadingLevel ==
    (IsGetCommand /\ schema = FullSchema
        /\ call.mark \in {"headerlevel1", "headerlevel2", "headerlevel3"}) =>
        /\ ~result.threw
        /\ result.value.fn = "setBlockType"
        /\ result.value.type = [class |-> "NodeType", name |-> "heading"]
        /\ result.value.level = <<C5_Level(call.mark)>>
        /\ result.value.href = undefined

C5_Witness ==
    /\ IsGetCommand
    /\ schema = FullSchema
    /\ call.mark = EditorMenuTypes.HeaderLevel2
    /\ call.url = <<<<"a">>>>
    /\ ~result.threw
    /\ result.value.level = <<2>>

\* C6 as claimed: for Link the command carries exactly the url that was
\* given, and none when none was given; for every other action no url.
C6_LinkCarriesGivenUrl ==
    (IsGetCommand /\ schema = FullSchema /\ ~result.threw) =>
        IF call.mark = "link"
        THEN result.value.href = call.url
        ELSE result.value.href = undefined

\* C6, amended: for Link the command carries the url as href when a
\* non-empty url was given, and no url when none or the empty string was
\* given; for every other action no url.
C6_LinkCarriesNonEmptyUrl ==
    (IsGetCommand /\ ~result.threw) =>
        IF call.mark = "link" /\ call.url # undefined /\ call.url[1] # <<>>
        THEN /\ result.value.fn = "toggleMark"
             /\ result.value.href = call.url
        ELSE result.value.href = undefined

C6_Witness ==
    /\ IsGetCommand
    /\ schema = FullSchema
    /\ call.mark = EditorMenuTypes.Link
    /\ call.url = <<<<"a">>>>
    /\ ~result.threw
    /\ result.value.href = <<<<"a">>>>

(***************************************************************************)
(* Properties of buildKeymap.                                              *)
(***************************************************************************)
IsBuildKeymap == call.op = "buildKeymap"

\* The action each shortcut stands for.
C7_Action ==
    ("Mod-B" :> "strong") @@ ("Mod-I" :> "em") @@ ("Mod-Shift-1" :> "headerlevel1")
        @@ ("Mod-Shift-2" :> "headerlevel2") @@ ("Mod-Shift-3" :> "headerlevel3")

\* C7: against a schema with every mark and node, buildKeymap returns a
\* mapping with exactly the five shortcuts Mod-B, Mod-I, Mod-Shift-1/2/3, and
\* each value is the command getCommand returns for that action without url.
C7_FiveBindings ==
    (IsBuildKeymap /\ schema = FullSchema) =>
        /\ ~result.threw
        /\ DOMAIN result.value = DOMAIN C7_Action
        /\ Cardinality(DOMAIN result.value) = 5
        /\ \A k \in DOMAIN C7_Action :
            LET r == getCommand(schema, dispatchTable, C7_Action[k], undefined)
            IN  ~r.threw /\ result.value[k] = r.value
        /\ result.value["Mod-B"].type.name = "strong"
        /\ result.value["Mod-I"].type.name = "em"
        /\ \A i \in 1..3 :
            LET k == CASE i = 1 -> "Mod-Shift-1" [] i = 2 -> "Mod-Shift-2" [] i = 3 -> "Mod-Shift-3"
            IN  result.value[k].level = <<i>>

C7_Witness ==
    /\ IsBuildKeymap
    /\ schema = FullSchema
    /\ ~result.threw
    /\ result.value["Mod-Shift-2"].level = <<2>>

\* The five actions in the order buildKeymap binds them.
C8_Order == <<"strong", "em", "headerlevel1", "headerlevel2", "headerlevel3">>

\* C8: buildKeymap returns the full mapping exactly when all five actions
\* resolve; otherwise it throws what getCommand throws for the first action,
\* in binding order, that does not resolve, and returns no mapping.
C8_AllOrNothing ==
    IsBuildKeymap =>
        LET outs   == [i \in 1..5 |-> getCommand(schema, dispatchTable, C8_Order[i], undefined)]
            thrown == {i \in 1..5 : outs[i].threw}
        IN  IF thrown = {}
            THEN ~result.threw /\ DOMAIN result.value = DOMAIN C7_Action
            ELSE /\ result.threw
                 /\ \E i \in thrown :
                    /\ \A j \in thrown : i <= j
                    /\ result = outs[i]

C8_Witness ==
    /\ IsBuildKeymap
    /\ schema.marks = {"strong", "link"}
    /\ "heading" \notin schema.nodes
    /\ result.threw
    /\ result.error.message[2] = "em"

(***************************************************************************)
(* Purity.                                                                 *)
(***************************************************************************)
\* The last call is getCommand with the inputs of the call kept earlier.
C9_SameInputs ==
    /\ earlier # NoCall
    /\ IsGetCommand
    /\ call.mark = earlier.call.mark
    /\ call.url = earlier.call.url

C10_StopEditOutsideEditMode ==
    \A i \in DOMAIN stopEditLog : ~stopEditLog[i].editMode

\* A step of handleInputBlur: the only step that starts a timeout.
C11_Blur == timers' = timers + 1

\* C11: a blur empties the input text when emptyInputOnBlur is true and
\* leaves it unchanged when it is false; so the input text is the text of the
\* last input event unless, since that event, emptyInput() was called, the
\* value property changed, or a blur happened while emptyInputOnBlur was true,
\* and then it is empty.
C11_EmptiedOnlyOnRequest ==
    /\ [][C11_Blur => textValue' = IF emptyInputOnBlur THEN <<>> ELSE textValue]_vars
    /\ [](IF lastInput # undefined /\ emptiedSince = {}
          THEN textValue = lastInput[1]
          ELSE textValue = <<>>)

\* After typing "a" the input lost the focus with emptyInputOnBlur false, and
\* the text is still there.
C11_Witness ==
    /\ lastInput = <<<<"a">>>>
    /\ emptiedSince = {}
    /\ ~inputFocused
    /\ blurred
    /\ ~emptyInputOnBlur
    /\ textValue = <<"a">>

====
